---------------------------- MODULE Spec2Model ----------------------------
(***************************************************************************)
(* Model of mlpack's NguyenWidrowInitialization<arma::mat>                 *)
(* (src/mlpack/methods/ann/init_rules/nguyen_widrow_init.hpp).             *)
(*                                                                         *)
(* A double is modelled as a fixed-point number: the record                *)
(* [cls |-> "fin", val |-> v] stands for the real v / Unit; the IEEE       *)
(* specials are [cls |-> "inf", val |-> +1 or -1] and [cls |-> "nan"].     *)
(* Products and quotients round toward zero to a multiple of 1 / Unit.     *)
(* A matrix is [n_rows, n_cols, mem] with mem in column-major order, as    *)
(* in Armadillo.  A size_t is a natural number; the all-ones value         *)
(* SIZE_MAX is written -1 (its value modulo 2^64).                         *)
(***************************************************************************)
EXTENDS Integers, Sequences, FiniteSets

\* ------------------------------------------------------------------ bounds
\* Largest number of elements of a matrix a caller asks for.
MaxElem == 4
\* Largest number of calls of Initialize on one initializer.
MaxCalls == 2
\* Fixed-point resolution of a double: one unit is 1 / Unit.
Unit == 1000

\* --------------------------------------------------------------- doubles
Fin(v) == [cls |-> "fin", val |-> v]
Inf(s) == [cls |-> "inf", val |-> s]
NaN == [cls |-> "nan", val |-> 0]
\* A local that the call never assigned.
NotComputed == [cls |-> "none", val |-> 0]

Abs(x) == IF x < 0 THEN -x ELSE x
Sgn(x) == IF x < 0 THEN -1 ELSE IF x = 0 THEN 0 ELSE 1
Min(a, b) == IF a <= b THEN a ELSE b

IsFinite(d) == d.cls = "fin"

\* a * b on doubles.
DMul(a, b) ==
  IF a.cls = "nan" \/ b.cls = "nan" THEN NaN
  ELSE IF a.cls = "inf" \/ b.cls = "inf"
       THEN IF a.val = 0 \/ b.val = 0 THEN NaN ELSE Inf(Sgn(a.val) * Sgn(b.val))
       ELSE Fin(Sgn(a.val) * Sgn(b.val) * ((Abs(a.val) * Abs(b.val)) \div Unit))

\* a / b on doubles: x / 0 is an infinity, 0 / 0 is a NaN.
DDiv(a, b) ==
  IF a.cls = "nan" \/ b.cls = "nan" THEN NaN
  ELSE IF a.cls = "inf"
       THEN IF b.cls = "inf" THEN NaN
            ELSE Inf(a.val * (IF b.val < 0 THEN -1 ELSE 1))
       ELSE IF b.cls = "inf" THEN Fin(0)
            ELSE IF b.val = 0
                 THEN IF a.val = 0 THEN NaN ELSE Inf(Sgn(a.val))
                 ELSE Fin(Sgn(a.val) * Sgn(b.val) * ((Abs(a.val) * Unit) \div Abs(b.val)))

\* The largest s in lo .. hi - 1 with s * s <= n, given lo * lo <= n < hi * hi.
RECURSIVE SqrtSearch(_, _, _)
SqrtSearch(n, lo, hi) ==
  IF hi - lo <= 1 THEN lo
  ELSE LET mid == (lo + hi) \div 2
       IN IF mid * mid <= n THEN SqrtSearch(n, mid, hi) ELSE SqrtSearch(n, lo, mid)

\* floor(sqrt(n)) for 0 <= n < 2^31 (46341^2 exceeds 2^31).
ISqrt(n) == SqrtSearch(n, 0, Min(n + 1, 46341))

\* The sequence f with every element evaluated once.
Eager(f) == f \o <<>>

\* -------------------------------------------------------------- matrices
Mat(r, c, m) == [n_rows |-> r, n_cols |-> c, mem |-> m]
NElem(M) == M.n_rows * M.n_cols
\* Element (i, j), 1-based, of a column-major matrix.
At(M, i, j) == M.mem[(j - 1) * M.n_rows + i]
AllFinite(M) == \A k \in 1..NElem(M) : IsFinite(M.mem[k])

RECURSIVE SumTo(_, _)
\* f[1] + ... + f[n]
SumTo(f, n) == IF n = 0 THEN 0 ELSE f[n] + SumTo(f, n - 1)

\* Sum of the squares of all entries, in units of 1 / Unit^2.
SumSq(M) == SumTo([k \in 1..NElem(M) |-> M.mem[k].val * M.mem[k].val], NElem(M))

\* sqrt(sum of squares of all entries): the Euclidean / Frobenius norm.
VecNorm2(M) == IF AllFinite(M) THEN Fin(ISqrt(SumSq(M))) ELSE NaN

\* The Gram matrix on the shorter side, entries in units of 1 / Unit:
\* M^T M when n_cols <= n_rows, M M^T otherwise.  Both have the same nonzero
\* eigenvalues, the squared singular values of M.
Gram(M) ==
  IF M.n_cols <= M.n_rows
  THEN Eager([a \in 1..M.n_cols |-> Eager([b \in 1..M.n_cols |->
          SumTo([i \in 1..M.n_rows |-> At(M, i, a).val * At(M, i, b).val], M.n_rows)
            \div Unit])])
  ELSE Eager([a \in 1..M.n_rows |-> Eager([b \in 1..M.n_rows |->
          SumTo([j \in 1..M.n_cols |-> At(M, a, j).val * At(M, b, j).val], M.n_cols)
            \div Unit])])

\* The Schur complement of the k x k matrix A on its first pivot.
Schur(A, k) ==
  Eager([i \in 1..(k - 1) |-> Eager([j \in 1..(k - 1) |->
     A[i + 1][j + 1] - ((A[i + 1][1] * A[1][j + 1]) \div A[1][1])])])

RECURSIVE IsPosDef(_, _)
\* A symmetric k x k matrix is positive definite iff every pivot is positive.
IsPosDef(A, k) == IF k = 0 THEN TRUE ELSE A[1][1] > 0 /\ IsPosDef(Schur(A, k), k - 1)

\* x I - G
Shifted(G, k, x) ==
  Eager([i \in 1..k |-> Eager([j \in 1..k |-> (IF i = j THEN x ELSE 0) - G[i][j]])])

RECURSIVE EigSearch(_, _, _, _)
\* The largest x in lo .. hi - 1 for which x I - G is not positive definite,
\* i.e. the largest eigenvalue of G rounded down.
EigSearch(G, k, lo, hi) ==
  IF hi - lo <= 1 THEN lo
  ELSE LET mid == (lo + hi) \div 2
       IN IF IsPosDef(Shifted(G, k, mid), k)
          THEN EigSearch(G, k, lo, mid) ELSE EigSearch(G, k, mid, hi)

\* The largest eigenvalue of the positive semidefinite k x k matrix G; it lies
\* between 0 and the trace.
MaxEig(G, k) == EigSearch(G, k, 0, SumTo([i \in 1..k |-> G[i][i]], k) + 1)

\* The matrix 2-norm: the largest singular value.
MatNorm2(M) ==
  IF AllFinite(M)
  THEN LET k == Min(M.n_rows, M.n_cols)
       IN Fin(ISqrt(MaxEig(Gram(M), k) * Unit))
  ELSE NaN

\* arma::norm(X) with its default k = 2: 0 for an empty object, the Euclidean
\* norm for a vector-shaped one, the largest singular value otherwise.
ArmaNorm(M) ==
  IF NElem(M) = 0 THEN Fin(0)
  ELSE IF M.n_rows = 1 \/ M.n_cols = 1 THEN VecNorm2(M)
  ELSE MatNorm2(M)

\* W *= s
ScaleInPlace(M, s) ==
  [M EXCEPT !.mem = Eager([k \in 1..NElem(M) |-> DMul(M.mem[k], s)])]


\* ------------------------------------------------------- the collaborator
\* The positions in the unit interval a uniform draw is taken from: its ends.
UnitDraws == {0, Unit}

\* The point of [lo, hi] at position u of the unit interval.
Spread(lo, hi, u) == lo + ((u * (hi - lo)) \div Unit)

\* The values one uniform draw from [lo, hi] can have.
DrawSet(lo, hi) == {Spread(lo, hi, u) : u \in UnitDraws}

\* RandomInitialization(lo, hi).Initialize(M, r, c): M becomes r x c, every
\* entry an independent draw from [lo, hi]; nothing of the old M is kept.
Fill(M, r, c, lo, hi, draws) ==
  Mat(r, c, Eager([k \in 1..(r * c) |-> Fin(Spread(lo, hi, draws[k]))]))

\* ------------------------------------------------------------- the state
VARIABLES
  lowerBound,   \* the initializer's const double lowerBound
  upperBound,   \* the initializer's const double upperBound
  W,            \* the caller's matrix
  n_rows,       \* arguments of the last call of Initialize
  n_cols,
  fillLo,       \* the bounds the last call handed to RandomInitialization
  fillHi,
  filled,       \* W as the filler left it (after line 75)
  quot,         \* the value of 1 / n_rows in the last call
  beta,         \* the local beta of the last call
  norm,         \* the value of arma::norm(W) in the last call
  outcome,      \* "none": not called yet; "returned"; "trap": killed by the
                \* division trap; "failed": a failure reported to the caller
  calls,        \* how many calls of Initialize were made
  prev          \* what a caller comparing two runs keeps of the run before

vars == <<lowerBound, upperBound, W, n_rows, n_cols, fillLo, fillHi, filled,
          quot, beta, norm, outcome, calls, prev>>

\* --------------------------------------------------------- construction
\* The default arguments of the constructor.
DefaultLower == -(Unit \div 2)
DefaultUpper == Unit \div 2

\* The (lowerBound, upperBound) pairs initializers are constructed with.
BoundsChoices ==
  {<<DefaultLower, DefaultUpper>>, <<0, 0>>, <<0, Unit \div 2>>, <<-Unit, Unit>>}

\* What the caller's matrix may hold before the call.
PriorMats ==
  {Mat(0, 0, <<>>), Mat(1, 1, <<Fin(3 * Unit)>>),
   Mat(2, 1, <<Fin(Unit), NaN>>)}

NoRun == [valid |-> FALSE, n_rows |-> 0, n_cols |-> 0, nonzero |-> FALSE,
          fro |-> NotComputed]

Init ==
  /\ \E b \in BoundsChoices : lowerBound = b[1] /\ upperBound = b[2]
  /\ W \in PriorMats
  /\ n_rows = 0 /\ n_cols = 0
  /\ fillLo = 0 /\ fillHi = 0
  /\ filled = Mat(0, 0, <<>>)
  /\ quot = 0
  /\ beta = NotComputed
  /\ norm = NotComputed
  /\ outcome = "none"
  /\ calls = 0
  /\ prev = NoRun

\* ------------------------------------------------------------ Initialize
\* The arguments of the RandomInitialization constructor (line 74).
FillArgs == <<lowerBound, upperBound>>

\* A faulty FillShape: the two counts exchanged.
FillShapeSwapped(r, c) == <<c, r>>

\* The shape handed to randomInit.Initialize (line 75).
FillShape(r, c) == <<r, c>>

\* A faulty KeepBounds: each call narrows the stored bounds.
NarrowBounds == lowerBound' = lowerBound \div 2 /\ upperBound' = upperBound \div 2

\* lowerBound and upperBound are const members: no call assigns them.
KeepBounds == UNCHANGED <<lowerBound, upperBound>>

\* a / b on size_t.  Division by zero is undefined: the builds either trap
\* (x86: SIGFPE), or yield 0 (AArch64 udiv) or all ones (RISC-V divu).
SizeDiv(a, b) ==
  IF b # 0 THEN {[trap |-> FALSE, val |-> a \div b]}
  ELSE {[trap |-> TRUE, val |-> 0], [trap |-> FALSE, val |-> 0],
        [trap |-> FALSE, val |-> -1]}

\* The exponent expression 1 / n_rows of line 77: both operands are integers.
Exponent(r) == SizeDiv(1, r)

RECURSIVE IntPow(_, _)
IntPow(b, e) == IF e = 0 THEN 1 ELSE b * IntPow(b, e - 1)

\* std::pow(base, e) with both size_t arguments converted to double.
StdPow(base, e) ==
  IF e = 0 THEN Fin(Unit)
  ELSE IF base = 0 THEN Fin(0)
  ELSE IF base = 1 THEN Fin(Unit)
  ELSE IF e = -1 THEN Inf(1)
  ELSE Fin(IntPow(base, e) * Unit)

\* double beta = 0.7 * std::pow(n_cols, 1 / n_rows), given the quotient q.
ComputeBeta(c, q) == DMul(Fin((7 * Unit) \div 10), StdPow(c, q))

\* A faulty Rescale: the scale factor applied twice.
RescaleTwice(M, b) ==
  ScaleInPlace(ScaleInPlace(M, DDiv(b, ArmaNorm(M))), DDiv(b, ArmaNorm(M)))

\* W *= (beta / arma::norm(W))
Rescale(M, b) == ScaleInPlace(M, DDiv(b, ArmaNorm(M)))

\* The Frobenius norm of a matrix, as a caller measures it.
FroNorm(M) == VecNorm2(M)

\* What a caller keeps of a finished run to compare the next one with.
Summary ==
  [valid |-> outcome = "returned", n_rows |-> n_rows, n_cols |-> n_cols,
   nonzero |-> norm.cls = "fin" /\ norm.val # 0,
   fro |-> IF outcome = "returned" THEN FroNorm(W) ELSE NotComputed]

\* One call Initialize(W, r, c) on the initializer; draws are the filler's
\* random positions in the unit interval and d the outcome of the division
\* 1 / r.
Initialize(r, c, draws, d) ==
  /\ outcome # "trap"
  /\ calls < MaxCalls
  /\ calls' = calls + 1
  /\ LET args == FillArgs
         shape == FillShape(r, c)
         F == Fill(W, shape[1], shape[2], args[1], args[2], draws)
     IN /\ n_rows' = r
        /\ n_cols' = c
        /\ fillLo' = args[1]
        /\ fillHi' = args[2]
        /\ filled' = F
        /\ IF d.trap
           THEN /\ W' = F
                /\ quot' = 0
                /\ beta' = NotComputed
                /\ norm' = NotComputed
                /\ outcome' = "trap"
           ELSE /\ quot' = d.val
                /\ beta' = ComputeBeta(c, d.val)
                /\ norm' = ArmaNorm(F)
                /\ W' = Rescale(F, ComputeBeta(c, d.val))
                /\ outcome' = "returned"
  /\ KeepBounds

\* The inputs of a call.
Call ==
  \E r \in 0..MaxElem, c \in 0..MaxElem :
    \E d \in Exponent(r) :
      /\ r * c <= MaxElem
      /\ \E draws \in [1..(r * c) -> UnitDraws] :
           Initialize(r, c, draws, d)

\* A caller that calls Initialize any number of times.
Next == Call /\ UNCHANGED prev

Spec == Init /\ [][Next]_vars

\* A caller that compares each run with the one before it.
NextPair == Call /\ prev' = Summary

SpecPair == Init /\ [][NextPair]_vars


\* ---------------------------------------------------------------- claims
Returned == outcome = "returned"
\* Initialize is void and has no throw statement: no call ends this way.
Reported == outcome = "failed"

\* Two doubles agree within one percent of 1.0.
Tolerance == Unit \div 100
Close(a, b) == a.cls = "fin" /\ b.cls = "fin" /\ Abs(a.val - b.val) <= Tolerance

RECURSIVE PowFix(_, _)
\* b^r for a fixed-point b and r >= 1.
PowFix(b, r) == IF r = 1 THEN b ELSE (PowFix(b, r - 1) * b) \div Unit

RECURSIVE RootSearch(_, _, _, _)
\* The largest b in lo .. hi - 1 with b^r <= x.
RootSearch(x, r, lo, hi) ==
  IF hi - lo <= 1 THEN lo
  ELSE LET mid == (lo + hi) \div 2
       IN IF PowFix(mid, r) <= x THEN RootSearch(x, r, mid, hi)
          ELSE RootSearch(x, r, lo, mid)

\* c^(1/r) in real arithmetic, for r >= 1.
RealRoot(c, r) == RootSearch(c * Unit, r, 0, c * Unit + 1)

\* The beta of the method: 0.7 * n_cols^(1/n_rows) with a real exponent.
RealBeta(r, c) == DMul(Fin((7 * Unit) \div 10), Fin(RealRoot(c, r)))

\* The filler produced at least one nonzero entry.
NonzeroFill == FroNorm(filled).cls = "fin" /\ FroNorm(filled).val # 0

\* C1: after Initialize returns for n_rows > 0, n_cols > 0 and a fill of
\* nonzero norm, the whole-matrix norm of W is 0.7 * n_cols^(1/n_rows).
C1_NormMatchesBeta ==
  (Returned /\ n_rows > 0 /\ n_cols > 0 /\ NonzeroFill)
    => Close(FroNorm(W), RealBeta(n_rows, n_cols))

\* C2: the exponent 1 / n_rows is the real reciprocal, so beta is
\* 0.7 * n_cols^(1/n_rows) for all counts n_rows >= 1 and n_cols >= 1.
C2_RealExponent ==
  (Returned /\ n_rows > 0 /\ n_cols > 0)
    => /\ Fin(quot * Unit) = DDiv(Fin(Unit), Fin(n_rows * Unit))
       /\ Close(beta, RealBeta(n_rows, n_cols))

\* C3: a call with n_rows = 0 or with zero requested elements is rejected
\* with a reported failure before beta is computed.
C3_InvalidDimensionRejected ==
  (calls > 0 /\ n_rows * n_cols = 0) => (Reported /\ beta = NotComputed)

\* C4: a nonempty fill of zero norm is detected before the division
\* beta / norm and reported as a failure.
C4_DegenerateNormRejected ==
  (calls > 0 /\ NElem(filled) > 0 /\ ~NonzeroFill)
    => (Reported /\ norm = NotComputed)

\* C5: every call that returns without a reported failure leaves every entry
\* of W finite.
C5_ReturnedFinite == Returned => AllFinite(W)

\* C6: after a successful call with n_rows > 0 and n_cols > 0, W has exactly
\* n_rows rows and n_cols columns, the shape the fill produced.
C6_ShapePreserved ==
  (Returned /\ n_rows > 0 /\ n_cols > 0)
    => /\ W.n_rows = n_rows /\ W.n_cols = n_cols
       /\ Len(W.mem) = n_rows * n_cols
       /\ filled.n_rows = W.n_rows /\ filled.n_cols = W.n_cols

C6_Witness ==
  Returned /\ calls = 2 /\ n_rows = 1 /\ n_cols = 3 /\ W.n_rows = 1 /\ W.n_cols = 3

\* The betas a first call with the arguments (r, c) computes.
FirstCallBetas(r, c) == {ComputeBeta(c, d.val) : d \in {e \in Exponent(r) : ~e.trap}}

\* C7: no call changes lowerBound and upperBound; every call, the first and
\* the later ones alike, hands exactly these bounds to the filler and computes
\* a beta that a first call with the same (n_rows, n_cols) computes.
C7_BoundsFixed ==
  [][/\ lowerBound' = lowerBound
     /\ upperBound' = upperBound
     /\ fillLo' = lowerBound
     /\ fillHi' = upperBound
     /\ (outcome' = "returned" => beta' \in FirstCallBetas(n_rows', n_cols'))]_vars

C7_Witness ==
  /\ Returned /\ calls = 2 /\ lowerBound = DefaultLower /\ upperBound = DefaultUpper
  /\ fillLo = DefaultLower /\ fillHi = DefaultUpper
  /\ n_rows = 2 /\ n_cols = 2

\* C8: two runs with the same (n_rows, n_cols) and bounds, both with a fill of
\* nonzero norm, end with matrices of the same norm: the norm of the result is
\* a function of (n_rows, n_cols) only, not of the draw.
C8_SameNormAcrossRuns ==
  (/\ Returned /\ prev.valid
   /\ prev.n_rows = n_rows /\ prev.n_cols = n_cols
   /\ n_rows > 0 /\ n_cols > 0
   /\ prev.nonzero /\ NonzeroFill)
    => Close(FroNorm(W), prev.fro)

\* C9: the norm Initialize divides by is the Frobenius norm of the filled
\* matrix, whatever its shape.
C9_FrobeniusNorm ==
  (Returned /\ NElem(filled) > 0) => Close(norm, FroNorm(filled))

\* C10: the filler runs first, with (lowerBound, upperBound) in this order and
\* the requested shape; the norm is that of the filled matrix; and W is the
\* filled matrix with every entry multiplied once by beta / norm.
C10_FillThenScale ==
  Returned
    => /\ fillLo = lowerBound /\ fillHi = upperBound
       /\ filled.n_rows = n_rows /\ filled.n_cols = n_cols
       /\ \A k \in 1..NElem(filled) :
            filled.mem[k] \in {Fin(v) : v \in DrawSet(lowerBound, upperBound)}
       /\ norm = ArmaNorm(filled)
       /\ W = Mat(n_rows, n_cols,
                  [k \in 1..(n_rows * n_cols) |->
                     DMul(filled.mem[k], DDiv(beta, norm))])

C10_Witness ==
  /\ Returned /\ calls = 2 /\ n_rows = 2 /\ n_cols = 2
  /\ norm.val # 0 /\ norm.val # beta.val
  /\ W # filled /\ AllFinite(W)

=============================================================================
